---- MODULE Spec2Model ----
(***************************************************************************)
(* Model of the pipeline orchestration core of foundry:                    *)
(*   backend/src/foundry/domain/pipelines/service.py  (PipelineService)    *)
(*   backend/src/foundry/infrastructure/database/models.py                 *)
(*   backend/src/foundry/workers/tasks/pipelines.py                        *)
(*                                                                         *)
(*   backend/src/foundry/core/security.py  (TokenPayload.has_role)         *)
(*                                                                         *)
(* Eight specifications share the variables:                               *)
(*   SpecDag  - the DAG validator as a pure function over bounded inputs   *)
(*   Spec     - pipeline definitions: create, update, delete, trigger,     *)
(*              each handler one atomic action                             *)
(*   SpecRun  - the runs and tasks of a pipeline under the status          *)
(*              handlers, each handler one atomic action                   *)
(*   SpecIso  - two tenants calling every operation of the service         *)
(*   SpecConc - two sessions running update_task_status, trigger_pipeline  *)
(*              and get_pipeline_run step by step                          *)
(*   SpecRunConc - two sessions running update_run_status and              *)
(*              cancel_pipeline_run step by step                           *)
(*   SpecLive - a run under an executor that reports every task, with the  *)
(*              fairness of that executor and of the worker                *)
(*   SpecRole - TokenPayload.has_role as a pure function over bounded      *)
(*              role strings                                               *)
(***************************************************************************)
EXTENDS Integers, Sequences, FiniteSets, TLC

VARIABLES
    pipelines,   \* table "pipelines": sequence of Pipeline rows, id = index
    runs,        \* table "pipeline_runs": sequence of PipelineRun rows
    tasks,       \* table "pipeline_tasks": sequence of PipelineTask rows
    now,         \* the clock read by datetime.now(timezone.utc)
    result,      \* outcome of the last handler call
    dagInput,    \* SpecDag: the dag_definition handed to _validate_dag
    dagResult,   \* SpecDag: what _validate_dag did with it
    sess,        \* SpecConc: the sessions' loaded rows and position
    auth         \* SpecRole: a token's role, the role required, has_role's answer

vars == <<pipelines, runs, tasks, now, result, dagInput, dagResult, sess, auth>>

----------------------------------------------------------------------------
(* Bounds *)

\* longest task list handed to the validator in SpecDag
MaxTasks == 3

TaskIds == {"A", "B", "C"}

\* longest dependency list of one task in SpecDag
MaxDeps == Cardinality(TaskIds) - 1

\* Python's None / SQL NULL; a present value x is <<x>>
None == <<>>

Some(x) == <<x>>

----------------------------------------------------------------------------
(* PipelineStatus, models.py:103-110 *)

PENDING == "PENDING"
RUNNING == "RUNNING"
SUCCESS == "SUCCESS"
FAILED == "FAILED"
CANCELLED == "CANCELLED"

PipelineStatus == {PENDING, RUNNING, SUCCESS, FAILED, CANCELLED}

----------------------------------------------------------------------------
(* schemas.py: TaskDefinition and DAGDefinition.  A dag_definition is the  *)
(* list of its tasks; task_type, config and default_args are opaque to the *)
(* service and left out.                                                   *)

SeqsUpTo(S, n) == UNION {[1..k -> S] : k \in 0..n}

\* dependency lists: every order of every choice of up to MaxDeps ids
DepLists == {d \in SeqsUpTo(TaskIds, MaxDeps) : \A i, j \in DOMAIN d : d[i] = d[j] => i = j}

TaskDefinition == [task_id : TaskIds, dependencies : DepLists]

DAGDefinition == SeqsUpTo(TaskDefinition, MaxTasks)

Range(s) == {s[i] : i \in DOMAIN s}

----------------------------------------------------------------------------
(* core/exceptions.py outcomes of a call *)

Ok == [kind |-> "ok", msg |-> "", args |-> <<>>]

ValidationError(msg, args) == [kind |-> "ValidationError", msg |-> msg, args |-> args]

----------------------------------------------------------------------------
(* PipelineService._check_dag_cycles, service.py:190-215 *)

WHITE == 0
GRAY == 1
BLACK == 2

\* graph: dict task_id -> dependencies; a later task with the same id
\* overwrites an earlier one (dict assignment)
BuildGraph(tlist) ==
    [id \in {tlist[i].task_id : i \in DOMAIN tlist} |->
        LET last == CHOOSE i \in DOMAIN tlist :
                        /\ tlist[i].task_id = id
                        /\ \A j \in DOMAIN tlist : tlist[j].task_id = id => j <= i
        IN  tlist[last].dependencies]

\* order of the dict's keys: first insertion of each id
RECURSIVE GraphKeys(_, _)
GraphKeys(tlist, i) ==
    IF i > Len(tlist) THEN <<>>
    ELSE LET rest == GraphKeys(tlist, i + 1)
             id == tlist[i].task_id
         IN  IF \E j \in 1..(i - 1) : tlist[j].task_id = id
             THEN rest
             ELSE <<id>> \o rest

\* dfs(node), with the colour map threaded through.  st = [cycle, color,
\* grayed, depth]: grayed logs every node marked GRAY, in order; depth is
\* the deepest nesting of dfs calls reached so far.
RECURSIVE dfs(_, _, _, _), dfsNeighbors(_, _, _, _, _),
          dfsNeighbors_blackRevisited(_, _, _, _, _)

\* Mutant of dfsNeighbors: a neighbor that is BLACK is descended into again.
dfsNeighbors_blackRevisited(graph, st, node, i, d) ==
    IF i > Len(graph[node])
    THEN [st EXCEPT !.color = [st.color EXCEPT ![node] = BLACK]]
    ELSE LET neighbor == graph[node][i] IN
         IF st.color[neighbor] = GRAY
         THEN [st EXCEPT !.cycle = TRUE]
         ELSE LET r == dfs(graph, st, neighbor, d + 1) IN
              IF r.cycle THEN r
              ELSE dfsNeighbors_blackRevisited(graph, r, node, i + 1, d)

dfsNeighbors(graph, st, node, i, d) ==
    IF i > Len(graph[node])
    THEN [st EXCEPT !.color = [st.color EXCEPT ![node] = BLACK]]
    ELSE LET neighbor == graph[node][i] IN
         IF st.color[neighbor] = GRAY
         THEN [st EXCEPT !.cycle = TRUE]
         ELSE IF st.color[neighbor] = WHITE
              THEN LET r == dfs(graph, st, neighbor, d + 1) IN
                   IF r.cycle THEN r
                   ELSE dfsNeighbors(graph, r, node, i + 1, d)
              ELSE dfsNeighbors(graph, st, node, i + 1, d)

dfs(graph, st, node, d) ==
    dfsNeighbors(graph,
                 [st EXCEPT !.color = [st.color EXCEPT ![node] = GRAY],
                            !.grayed = Append(st.grayed, node),
                            !.depth = IF d > st.depth THEN d ELSE st.depth],
                 node, 1, d)

\* Mutant of CycleLoop: the traversal is started from the first task only.
CycleLoop_firstRootOnly(graph, keys, st, i) ==
    IF i > Len(keys) \/ i > 1 THEN st
    ELSE dfs(graph, st, keys[i], 1)

\* the loop "for task_id in graph: if color[task_id] == WHITE: if dfs(...)"
RECURSIVE CycleLoop(_, _, _, _)
CycleLoop(graph, keys, st, i) ==
    IF i > Len(keys) THEN st
    ELSE IF st.color[keys[i]] = WHITE
         THEN LET r == dfs(graph, st, keys[i], 1) IN
              IF r.cycle THEN r ELSE CycleLoop(graph, keys, r, i + 1)
         ELSE CycleLoop(graph, keys, st, i + 1)

\* the traversal's final state; .cycle says whether ValidationError is raised
check_dag_cycles(tlist) ==
    LET graph == BuildGraph(tlist)
        keys == GraphKeys(tlist, 1)
        st0 == [cycle |-> FALSE, color |-> [id \in DOMAIN graph |-> WHITE],
                grayed |-> <<>>, depth |-> 0]
    IN  CycleLoop(graph, keys, st0, 1)

----------------------------------------------------------------------------
(* PipelineService._validate_dag, service.py:164-188.  The branch          *)
(* "if not task_id" cannot be taken: TaskDefinition.task_id has            *)
(* min_length=1 (schemas.py:20).                                           *)

\* Mutant of FirstDuplicate: a task_id is compared with the previous task's only.
FirstDuplicate_adjacentOnly(tlist) ==
    LET dups == {i \in DOMAIN tlist : i > 1 /\ tlist[i - 1].task_id = tlist[i].task_id}
    IN  IF dups = {} THEN 0 ELSE CHOOSE i \in dups : \A j \in dups : i <= j

FirstDuplicate(tlist) ==
    LET dups == {i \in DOMAIN tlist : \E j \in 1..(i - 1) : tlist[j].task_id = tlist[i].task_id}
    IN  IF dups = {} THEN 0 ELSE CHOOSE i \in dups : \A j \in dups : i <= j

\* first (task, dependency) position, in list order, whose dependency is
\* not a task_id of the list; <<0, 0>> when every dependency resolves
FirstUnknownDep(tlist) ==
    LET ids == {tlist[i].task_id : i \in DOMAIN tlist}
        bad == UNION {{<<i, j>> : j \in {k \in DOMAIN tlist[i].dependencies :
                                            tlist[i].dependencies[k] \notin ids}} :
                      i \in DOMAIN tlist}
    IN  IF bad = {} THEN <<0, 0>>
        ELSE CHOOSE p \in bad : \A q \in bad :
                 p[1] < q[1] \/ (p[1] = q[1] /\ p[2] <= q[2])

\* Mutant of validate_dag: the message of line 184 names the dependency as
\* the depending task and the task as the unknown one.
validate_dag_depNamedFirst(tlist) ==
    IF Len(tlist) = 0
    THEN ValidationError("DAG must have at least one task", <<>>)
    ELSE IF FirstDuplicate(tlist) # 0
    THEN ValidationError("Duplicate task_id", <<tlist[FirstDuplicate(tlist)].task_id>>)
    ELSE IF FirstUnknownDep(tlist) # <<0, 0>>
    THEN LET p == FirstUnknownDep(tlist)
         IN  ValidationError("depends on unknown task",
                             <<tlist[p[1]].dependencies[p[2]], tlist[p[1]].task_id>>)
    ELSE IF check_dag_cycles(tlist).cycle
    THEN ValidationError("DAG contains a cycle", <<>>)
    ELSE Ok

\* Mutant of validate_dag: the dependency loop (179-185) runs before the
\* duplicate loop (170-177).
validate_dag_dependenciesFirst(tlist) ==
    IF Len(tlist) = 0
    THEN ValidationError("DAG must have at least one task", <<>>)
    ELSE IF FirstUnknownDep(tlist) # <<0, 0>>
    THEN LET p == FirstUnknownDep(tlist)
         IN  ValidationError("depends on unknown task",
                             <<tlist[p[1]].task_id, tlist[p[1]].dependencies[p[2]]>>)
    ELSE IF FirstDuplicate(tlist) # 0
    THEN ValidationError("Duplicate task_id", <<tlist[FirstDuplicate(tlist)].task_id>>)
    ELSE IF check_dag_cycles(tlist).cycle
    THEN ValidationError("DAG contains a cycle", <<>>)
    ELSE Ok

\* Mutant of validate_dag: the cycle check of line 188 is left out.
validate_dag_noCycleCheck(tlist) ==
    IF Len(tlist) = 0
    THEN ValidationError("DAG must have at least one task", <<>>)
    ELSE IF FirstDuplicate(tlist) # 0
    THEN ValidationError("Duplicate task_id", <<tlist[FirstDuplicate(tlist)].task_id>>)
    ELSE IF FirstUnknownDep(tlist) # <<0, 0>>
    THEN LET p == FirstUnknownDep(tlist)
         IN  ValidationError("depends on unknown task",
                             <<tlist[p[1]].task_id, tlist[p[1]].dependencies[p[2]]>>)
    ELSE Ok

validate_dag(tlist) ==
    IF Len(tlist) = 0
    THEN ValidationError("DAG must have at least one task", <<>>)
    ELSE IF FirstDuplicate(tlist) # 0
    THEN ValidationError("Duplicate task_id", <<tlist[FirstDuplicate(tlist)].task_id>>)
    ELSE IF FirstUnknownDep(tlist) # <<0, 0>>
    THEN LET p == FirstUnknownDep(tlist)
         IN  ValidationError("depends on unknown task",
                             <<tlist[p[1]].task_id, tlist[p[1]].dependencies[p[2]]>>)
    ELSE IF check_dag_cycles(tlist).cycle
    THEN ValidationError("DAG contains a cycle", <<>>)
    ELSE Ok

----------------------------------------------------------------------------
(* Bounds of the store specification *)

\* rows the pipelines table may hold
MaxPipelines == 2
\* rows the pipeline_runs table may hold
MaxRuns == 1
\* readings of the clock that stamp a column
MaxTime == 2

Tenants == {"t1", "t2"}

Names == {"p", "q"}

\* error_message / logs arguments of the status handlers
Messages == {None, Some("m")}

\* a UUID no row has
NoId == 0

T(id, deps) == [task_id |-> id, dependencies |-> deps]

\* dag_definition inputs of create_pipeline / update_pipeline: the chain
\* "A, B depends on A", two independent tasks, and one DAG per way of
\* failing validation (SpecDag ranges over all of DAGDefinition)
DagChain == <<T("A", <<>>), T("B", <<"A">>)>>

DagPair == <<T("A", <<>>), T("B", <<>>)>>

DagInputs ==
    { DagChain, DagPair,
      <<>>,
      <<T("A", <<>>), T("A", <<>>)>>,
      <<T("A", <<"B">>)>>,
      <<T("A", <<"A">>)>>,
      <<T("A", <<"B">>), T("B", <<"A">>)>> }

----------------------------------------------------------------------------
(* Outcomes *)

NotFoundError(resource) == [kind |-> "NotFoundError", msg |-> resource, args |-> <<>>]

ConflictError(resource) == [kind |-> "ConflictError", msg |-> resource, args |-> <<>>]

\* exceptions that are not FoundryException: the handler dies with them
AttributeError == [kind |-> "AttributeError", msg |-> "'dict' object has no attribute 'model_dump'", args |-> <<>>]

IntegrityError == [kind |-> "IntegrityError", msg |-> "uq_tenant_pipeline_name", args |-> <<>>]

Returned(op, out) == [op |-> op, out |-> out]

----------------------------------------------------------------------------
(* Rows, models.py:620-705 *)

Pipeline(t, name, dag, enabled) ==
    [tenant_id |-> t, name |-> name, dag_definition |-> dag,
     enabled |-> enabled, deleted_at |-> None]

PipelineRun(t, pid) ==
    [tenant_id |-> t, pipeline_id |-> pid, status |-> PENDING,
     start_time |-> None, end_time |-> None, error_message |-> None]

PipelineTask(t, rid, id) ==
    [tenant_id |-> t, pipeline_run_id |-> rid, task_id |-> id, status |-> PENDING,
     start_time |-> None, end_time |-> None, error_message |-> None, logs |-> None]

\* SoftDeleteMixin.soft_delete, base.py:78-80
soft_delete(p) == [p EXCEPT !.deleted_at = Some(now)]

----------------------------------------------------------------------------
(* Queries of PipelineService *)

\* Mutant of get_pipeline: rows with deleted_at set are found too.
get_pipeline_deletedVisible(t, pid) ==
    IF pid \in DOMAIN pipelines /\ pipelines[pid].tenant_id = t THEN pid ELSE NoId

\* get_pipeline, service.py:77-89: the row, or NoId for NotFoundError
get_pipeline(t, pid) ==
    IF /\ pid \in DOMAIN pipelines
       /\ pipelines[pid].tenant_id = t
       /\ pipelines[pid].deleted_at = None
    THEN pid ELSE NoId

\* get_pipeline_run, service.py:260-273
get_pipeline_run(t, rid) ==
    IF rid \in DOMAIN runs /\ runs[rid].tenant_id = t THEN rid ELSE NoId

\* Mutant of get_task: the select has no tenant_id condition.
get_task_anyTenant(t, tid) ==
    IF tid \in DOMAIN tasks THEN tid ELSE NoId

\* the select of update_task_status, service.py:363-371
get_task(t, tid) ==
    IF tid \in DOMAIN tasks /\ tasks[tid].tenant_id = t THEN tid ELSE NoId

\* get_pipeline_tasks, service.py:341-353: ids of the run's task rows
get_pipeline_tasks(rid) == {k \in DOMAIN tasks : tasks[k].pipeline_run_id = rid}

InitStore ==
    /\ pipelines = <<>>
    /\ runs = <<>>
    /\ tasks = <<>>
    /\ now = 0
    /\ result = Returned("init", Ok)
    /\ auth = None

----------------------------------------------------------------------------
(* Terminal statuses, as tested in service.py:318, 332, 376 *)

Terminal == {SUCCESS, FAILED, CANCELLED}

Truthy(opt) == opt # None

\* whether a handler call with these effects reads the clock
Stamps(old, new) ==
    \/ old.start_time # new.start_time
    \/ old.end_time # new.end_time

----------------------------------------------------------------------------
(* create_pipeline, service.py:40-75 *)

create_pipeline_outcome(t, name, dag) ==
    LET checked == validate_dag(dag) IN
    IF \E i \in DOMAIN pipelines :
          /\ pipelines[i].tenant_id = t
          /\ pipelines[i].name = name
          /\ pipelines[i].deleted_at = None
    THEN ConflictError("Pipeline")
    ELSE IF checked.kind # "ok"
    THEN checked
    \* flush: UniqueConstraint("tenant_id", "name"), models.py:624-626, also
    \* counts soft-deleted rows
    ELSE IF \E i \in DOMAIN pipelines :
               pipelines[i].tenant_id = t /\ pipelines[i].name = name
    THEN IntegrityError
    ELSE Ok

create_pipeline(t, name, dag, enabled) ==
    \E out \in {create_pipeline_outcome(t, name, dag)} :
    /\ out.kind = "ok" => Len(pipelines) < MaxPipelines
    /\ pipelines' = IF out.kind = "ok"
                    THEN Append(pipelines, Pipeline(t, name, dag, enabled))
                    ELSE pipelines
    /\ result' = Returned("create_pipeline", out)
    /\ UNCHANGED <<runs, tasks, now, dagInput, dagResult, sess, auth>>

----------------------------------------------------------------------------
(* update_pipeline, service.py:135-156.  data = [dag_definition, enabled], *)
(* each None (unset, or set to None: both are skipped) or Some(value).     *)
(* update_data is data.model_dump(exclude_unset=True): pydantic dumps the  *)
(* nested DAGDefinition to a dict, which is truthy (it has the keys tasks  *)
(* and default_args) and has no model_dump, so line 147 raises             *)
(* AttributeError while evaluating the argument of _validate_dag.          *)

\* replacement DAGs of update requests: a valid one, the empty one, a cyclic one
UpdateDags == {DagPair, <<>>, <<T("A", <<"A">>)>>}

PipelineUpdate == [dag_definition : {None} \cup {Some(d) : d \in UpdateDags},
                   enabled : {None, Some(TRUE), Some(FALSE)}]

update_pipeline_outcome(t, pid, data) ==
    IF get_pipeline(t, pid) = NoId THEN NotFoundError("Pipeline")
    ELSE IF Truthy(data.dag_definition) THEN AttributeError
    ELSE Ok

\* the setattr loop, service.py:150-152 (reached with dag_definition None)
update_pipeline_row(p, data) ==
    IF data.enabled # None THEN [p EXCEPT !.enabled = data.enabled[1]] ELSE p

update_pipeline(t, pid, data) ==
    LET out == update_pipeline_outcome(t, pid, data) IN
    /\ pipelines' = IF out.kind = "ok"
                    THEN [pipelines EXCEPT ![pid] = update_pipeline_row(@, data)]
                    ELSE pipelines
    /\ result' = Returned("update_pipeline", out)
    /\ UNCHANGED <<runs, tasks, now, dagInput, dagResult, sess, auth>>

----------------------------------------------------------------------------
(* delete_pipeline, service.py:158-162 *)

delete_pipeline(t, pid) ==
    IF get_pipeline(t, pid) = NoId
    THEN /\ result' = Returned("delete_pipeline", NotFoundError("Pipeline"))
         /\ UNCHANGED <<pipelines, runs, tasks, now, dagInput, dagResult, sess, auth>>
    ELSE /\ now < MaxTime
         /\ pipelines' = [pipelines EXCEPT ![pid] = soft_delete(@)]
         /\ now' = now + 1
         /\ result' = Returned("delete_pipeline", Ok)
         /\ UNCHANGED <<runs, tasks, dagInput, dagResult, sess, auth>>

----------------------------------------------------------------------------
(* trigger_pipeline, service.py:221-258 *)

\* Mutant of trigger_pipeline_outcome: the enabled flag is not looked at.
trigger_pipeline_outcome_ignoresEnabled(t, pid) ==
    IF get_pipeline(t, pid) = NoId THEN NotFoundError("Pipeline") ELSE Ok

trigger_pipeline_outcome(t, pid) ==
    IF get_pipeline(t, pid) = NoId THEN NotFoundError("Pipeline")
    ELSE IF ~pipelines[pid].enabled THEN ValidationError("Pipeline is disabled", <<>>)
    ELSE Ok

\* one PipelineTask per task_def of the DAG, in the DAG's order
NewTasks(t, rid, dag) == [i \in DOMAIN dag |-> PipelineTask(t, rid, dag[i].task_id)]

trigger_pipeline(t, pid) ==
    LET out == trigger_pipeline_outcome(t, pid) IN
    IF out.kind # "ok"
    THEN /\ result' = Returned("trigger_pipeline", out)
         /\ UNCHANGED <<pipelines, runs, tasks, now, dagInput, dagResult, sess, auth>>
    ELSE /\ Len(runs) < MaxRuns
         /\ runs' = Append(runs, PipelineRun(t, pid))
         /\ tasks' = tasks \o NewTasks(t, Len(runs) + 1, pipelines[pid].dag_definition)
         /\ result' = Returned("trigger_pipeline", out)
         /\ UNCHANGED <<pipelines, now, dagInput, dagResult, sess, auth>>

----------------------------------------------------------------------------
(* update_run_status, service.py:306-326 *)

update_run_status_row(run, status, error_message) ==
    LET r1 == IF status = RUNNING /\ run.status = PENDING
              THEN [run EXCEPT !.start_time = Some(now)] ELSE run
        r2 == IF status \in Terminal
              THEN [r1 EXCEPT !.end_time = Some(now),
                              !.error_message = IF Truthy(error_message)
                                                THEN error_message ELSE @]
              ELSE r1
    IN  [r2 EXCEPT !.status = status]

\* the writes of update_run_status on an existing run
ApplyRunStatus(rid, status, error_message) ==
    LET new == update_run_status_row(runs[rid], status, error_message) IN
    /\ Stamps(runs[rid], new) => now < MaxTime
    /\ runs' = [runs EXCEPT ![rid] = new]
    /\ now' = IF Stamps(runs[rid], new) THEN now + 1 ELSE now

update_run_status(t, rid, status, error_message) ==
    IF get_pipeline_run(t, rid) = NoId
    THEN /\ result' = Returned("update_run_status", NotFoundError("PipelineRun"))
         /\ UNCHANGED <<pipelines, runs, tasks, now, dagInput, dagResult, sess, auth>>
    ELSE /\ ApplyRunStatus(rid, status, error_message)
         /\ result' = Returned("update_run_status", Ok)
         /\ UNCHANGED <<pipelines, tasks, dagInput, dagResult, sess, auth>>

----------------------------------------------------------------------------
(* cancel_pipeline_run, service.py:328-335 *)

\* Mutant of cancel_pipeline_run_outcome: a FAILED run may still be cancelled.
cancel_pipeline_run_outcome_failedAllowed(t, rid) ==
    IF get_pipeline_run(t, rid) = NoId THEN NotFoundError("PipelineRun")
    ELSE IF runs[rid].status \notin {PENDING, RUNNING, FAILED}
    THEN ValidationError("Cannot cancel a completed pipeline run", <<>>)
    ELSE Ok

cancel_pipeline_run_outcome(t, rid) ==
    IF get_pipeline_run(t, rid) = NoId THEN NotFoundError("PipelineRun")
    ELSE IF runs[rid].status \notin {PENDING, RUNNING}
    THEN ValidationError("Cannot cancel a completed pipeline run", <<>>)
    ELSE Ok

cancel_pipeline_run(t, rid) ==
    LET out == cancel_pipeline_run_outcome(t, rid) IN
    IF out.kind # "ok"
    THEN /\ result' = Returned("cancel_pipeline_run", out)
         /\ UNCHANGED <<pipelines, runs, tasks, now, dagInput, dagResult, sess, auth>>
    ELSE /\ ApplyRunStatus(rid, CANCELLED, None)
         /\ result' = Returned("cancel_pipeline_run", out)
         /\ UNCHANGED <<pipelines, tasks, dagInput, dagResult, sess, auth>>

----------------------------------------------------------------------------
(* update_task_status, service.py:355-387 *)

update_task_status_row(task, status, error_message, logs) ==
    LET k1 == IF status = RUNNING /\ task.status = PENDING
              THEN [task EXCEPT !.start_time = Some(now)] ELSE task
        k2 == IF status \in Terminal
              THEN [k1 EXCEPT !.end_time = Some(now)] ELSE k1
    IN  [k2 EXCEPT !.status = status,
                   !.error_message = IF Truthy(error_message) THEN error_message ELSE @,
                   !.logs = IF Truthy(logs) THEN logs ELSE @]

update_task_status(t, tid, status, error_message, logs) ==
    IF get_task(t, tid) = NoId
    THEN /\ result' = Returned("update_task_status", NotFoundError("PipelineTask"))
         /\ UNCHANGED <<pipelines, runs, tasks, now, dagInput, dagResult, sess, auth>>
    ELSE LET new == update_task_status_row(tasks[tid], status, error_message, logs) IN
         /\ Stamps(tasks[tid], new) => now < MaxTime
         /\ tasks' = [tasks EXCEPT ![tid] = new]
         /\ now' = IF Stamps(tasks[tid], new) THEN now + 1 ELSE now
         /\ result' = Returned("update_task_status", Ok)
         /\ UNCHANGED <<pipelines, runs, dagInput, dagResult, sess, auth>>

----------------------------------------------------------------------------
(* execute_pipeline, workers/tasks/pipelines.py:11-56: the Celery task     *)
(* that is to execute a run.  Its body logs the call and returns           *)
(* {"status": "completed", "pipeline_run_id": ..., "tasks_executed": 0};   *)
(* it reads neither the DAG nor a status and writes nothing.  The outcome  *)
(* carries the run id and tasks_executed.                                  *)

execute_pipeline(pipeline_run_id, tenant_id, pipeline_id) ==
    /\ result' = Returned("execute_pipeline",
                     [kind |-> "ok", msg |-> "completed", args |-> <<pipeline_run_id, 0>>])
    /\ UNCHANGED <<pipelines, runs, tasks, now, dagInput, dagResult, sess, auth>>

----------------------------------------------------------------------------
(* The store under the service's handlers *)

Init ==
    /\ InitStore
    /\ dagInput = <<>>
    /\ dagResult = None
    /\ sess = <<>>

\* ids a caller may pass: every row's id and one id no row has
PipelineIds == 0..MaxPipelines

RunIds == 0..MaxRuns

TaskRowIds == 0..Len(tasks)

\* pipeline definitions: create, update, delete, and runs created from them
Next ==
    \/ \E t \in Tenants, name \in Names, dag \in DagInputs, enabled \in BOOLEAN :
          create_pipeline(t, name, dag, enabled)
    \/ \E t \in Tenants, pid \in PipelineIds, data \in PipelineUpdate :
          update_pipeline(t, pid, data)
    \/ \E t \in Tenants, pid \in PipelineIds : delete_pipeline(t, pid)
    \/ \E t \in Tenants, pid \in PipelineIds : trigger_pipeline(t, pid)

Spec == Init /\ [][Next]_vars

----------------------------------------------------------------------------
(* The run lifecycle: runs of one pipeline under the status handlers.  The *)
(* status handlers never read the pipelines table, so the pipeline's own   *)
(* updates and deletion are left to Spec.                                  *)

\* pipelines created in SpecRun
MaxRunPipelines == 1

\* the pipeline whose runs SpecRun follows is created by this tenant under
\* this name; the status handlers are called by every tenant
RunTenant == "t1"

RunName == "p"

\* A status call on an id its tenant cannot see raises NotFoundError before
\* it reads its other arguments, so one choice of them stands for all.
NextRun ==
    \/ \E dag \in DagInputs, enabled \in BOOLEAN :
          /\ Len(pipelines) < MaxRunPipelines
          /\ create_pipeline(RunTenant, RunName, dag, enabled)
    \/ \E t \in Tenants, pid \in PipelineIds : trigger_pipeline(t, pid)
    \/ \E t \in Tenants, rid \in RunIds :
          /\ get_pipeline_run(t, rid) = NoId
          /\ update_run_status(t, rid, RUNNING, None)
    \/ \E t \in Tenants, rid \in RunIds, status \in PipelineStatus, msg \in Messages :
          /\ get_pipeline_run(t, rid) # NoId
          /\ update_run_status(t, rid, status, msg)
    \/ \E t \in Tenants, rid \in RunIds : cancel_pipeline_run(t, rid)
    \/ \E t \in Tenants, tid \in TaskRowIds :
          /\ get_task(t, tid) = NoId
          /\ update_task_status(t, tid, RUNNING, None, None)
    \/ \E t \in Tenants, tid \in TaskRowIds, status \in PipelineStatus,
          msg \in Messages, logs \in Messages :
          /\ get_task(t, tid) # NoId
          /\ update_task_status(t, tid, status, msg, logs)
    \/ \E rid \in DOMAIN runs :
          execute_pipeline(rid, runs[rid].tenant_id, runs[rid].pipeline_id)

SpecRun == Init /\ [][NextRun]_vars

----------------------------------------------------------------------------
(* The reads of PipelineService, as calls whose outcome carries the ids of *)
(* the rows returned.  Pagination is left at its defaults (offset 0,       *)
(* limit 100); created_at orders rows as their ids do.                     *)

Found(ids) == [kind |-> "ok", msg |-> "", args |-> ids]

\* ORDER BY created_at DESC / ASC
RECURSIVE Descending(_)
Descending(S) ==
    IF S = {} THEN <<>>
    ELSE LET top == CHOOSE i \in S : \A j \in S : j <= i
         IN  <<top>> \o Descending(S \ {top})

RECURSIVE Ascending(_)
Ascending(S) ==
    IF S = {} THEN <<>>
    ELSE LET low == CHOOSE i \in S : \A j \in S : i <= j
         IN  <<low>> \o Ascending(S \ {low})

Read(op, out) ==
    /\ result' = Returned(op, out)
    /\ UNCHANGED <<pipelines, runs, tasks, now, dagInput, dagResult, sess, auth>>

\* get_pipeline, service.py:77-89, called as an operation
GetPipeline(t, pid) ==
    Read("get_pipeline",
         IF get_pipeline(t, pid) = NoId THEN NotFoundError("Pipeline") ELSE Found(<<pid>>))

\* list_pipelines, service.py:105-133
ListPipelines(t, enabled_only) ==
    Read("list_pipelines",
         Found(Descending({i \in DOMAIN pipelines :
                              /\ pipelines[i].tenant_id = t
                              /\ pipelines[i].deleted_at = None
                              /\ enabled_only => pipelines[i].enabled})))

\* get_pipeline_run, service.py:260-273: the run and the task_ids of run.tasks
GetPipelineRun(t, rid) ==
    Read("get_pipeline_run",
         IF get_pipeline_run(t, rid) = NoId THEN NotFoundError("PipelineRun")
         ELSE LET own == SelectSeq(tasks, LAMBDA k : k.pipeline_run_id = rid)
              IN  [kind |-> "ok", msg |-> "PipelineRun",
                   args |-> <<rid, [i \in DOMAIN own |-> own[i].task_id]>>])

\* list_pipeline_runs, service.py:275-304, with a pipeline_id and no status
ListPipelineRuns(t, pid) ==
    Read("list_pipeline_runs",
         Found(Descending({r \in DOMAIN runs :
                              runs[r].tenant_id = t /\ runs[r].pipeline_id = pid})))

\* get_pipeline_tasks, service.py:341-353, called as an operation
GetPipelineTasks(t, rid) ==
    Read("get_pipeline_tasks",
         IF get_pipeline_run(t, rid) = NoId THEN NotFoundError("PipelineRun")
         ELSE Found(Ascending({k \in DOMAIN tasks :
                                  tasks[k].pipeline_run_id = rid /\ tasks[k].tenant_id = t})))

\* get_last_run, service.py:389-401: the newest run of the pipeline, or None
GetLastRun(t, pid) ==
    LET found == Descending({r \in DOMAIN runs :
                                runs[r].pipeline_id = pid /\ runs[r].tenant_id = t})
    IN  Read("get_last_run", Found(IF found = <<>> THEN <<>> ELSE <<found[1]>>))

----------------------------------------------------------------------------
(* Two tenants on one store: every operation of the service, called by     *)
(* either tenant with every id of the store and one id no row has.  Each   *)
(* tenant keeps one pipeline of one task; the status handlers are given    *)
(* one way of starting and one way of ending a run or task.                *)

IsoDag == <<T("A", <<>>)>>

IsoStatuses == {RUNNING, SUCCESS}

\* update requests: disable, enable, replace the DAG
IsoUpdates ==
    { [dag_definition |-> None, enabled |-> Some(FALSE)],
      [dag_definition |-> None, enabled |-> Some(TRUE)],
      [dag_definition |-> Some(DagPair), enabled |-> None] }

NextIso ==
    \/ \E t \in Tenants, enabled \in BOOLEAN : create_pipeline(t, RunName, IsoDag, enabled)
    \/ \E t \in Tenants, pid \in PipelineIds, data \in IsoUpdates :
          update_pipeline(t, pid, data)
    \/ \E t \in Tenants, pid \in PipelineIds : delete_pipeline(t, pid)
    \/ \E t \in Tenants, pid \in PipelineIds : trigger_pipeline(t, pid)
    \/ \E t \in Tenants, rid \in RunIds, status \in IsoStatuses :
          update_run_status(t, rid, status, None)
    \/ \E t \in Tenants, rid \in RunIds : cancel_pipeline_run(t, rid)
    \/ \E t \in Tenants, tid \in TaskRowIds, status \in IsoStatuses :
          update_task_status(t, tid, status, Some("m"), None)
    \/ \E t \in Tenants, pid \in PipelineIds : GetPipeline(t, pid)
    \/ \E t \in Tenants, enabled_only \in BOOLEAN : ListPipelines(t, enabled_only)
    \/ \E t \in Tenants, rid \in RunIds : GetPipelineRun(t, rid)
    \/ \E t \in Tenants, pid \in PipelineIds : ListPipelineRuns(t, pid)
    \/ \E t \in Tenants, rid \in RunIds : GetPipelineTasks(t, rid)
    \/ \E t \in Tenants, pid \in PipelineIds : GetLastRun(t, pid)

SpecIso == Init /\ [][NextIso]_vars

----------------------------------------------------------------------------
(* Concurrent callers.  Every call runs in a session of its own            *)
(* (session.py:52-74: one AsyncSession per request, committed when the     *)
(* handler returns).  update_task_status is three steps there: the SELECT  *)
(* of lines 363-371 reads the committed row; flush (line 385) sends an     *)
(* UPDATE of the columns the handler changed and holds the row's lock      *)
(* until the transaction ends; the commit (session.py:69) publishes it.    *)
(* A session starts one call.  Pipelines are created, and a first run may  *)
(* be triggered, by calls that returned before the sessions start.         *)

Sessions == {"s1", "s2"}

Idle == [pc |-> "idle", tid |-> NoId, status |-> PENDING, error_message |-> None,
         logs |-> None, row |-> None, changed |-> {}]

InitConc ==
    /\ InitStore
    /\ dagInput = <<>>
    /\ dagResult = None
    /\ sess = [s \in Sessions |-> Idle]

\* service.py:363-371
SelectTask(s, t, tid, status, error_message, logs) ==
    /\ sess[s].pc = "idle"
    /\ IF get_task(t, tid) = NoId
       THEN /\ sess' = [sess EXCEPT ![s].pc = "done"]
            /\ result' = Returned("update_task_status", NotFoundError("PipelineTask"))
       ELSE /\ sess' = [sess EXCEPT ![s] = [pc |-> "loaded", tid |-> tid, status |-> status,
                                            error_message |-> error_message, logs |-> logs,
                                            row |-> Some(tasks[tid]), changed |-> {}]]
            /\ UNCHANGED <<result, auth>>
    /\ UNCHANGED <<pipelines, runs, tasks, now, dagInput, dagResult, auth>>

\* the columns an UPDATE carries: those whose value differs from the loaded one
ChangedColumns(old, new) == {f \in DOMAIN old : old[f] # new[f]}

\* service.py:373-385; the UPDATE waits while another transaction holds
\* the row's lock
FlushTask(s) ==
    /\ sess[s].pc = "loaded"
    /\ \A o \in Sessions \ {s} : ~(sess[o].pc = "flushed" /\ sess[o].tid = sess[s].tid)
    /\ LET old == sess[s].row[1]
           new == update_task_status_row(old, sess[s].status, sess[s].error_message, sess[s].logs)
       IN  /\ Stamps(old, new) => now < MaxTime
           /\ sess' = [sess EXCEPT ![s].pc = "flushed", ![s].row = Some(new),
                                   ![s].changed = ChangedColumns(old, new)]
           /\ now' = IF Stamps(old, new) THEN now + 1 ELSE now
    /\ UNCHANGED <<pipelines, runs, tasks, result, dagInput, dagResult, auth>>

\* session.py:69: the changed columns overwrite the committed row's
CommitTask(s) ==
    /\ sess[s].pc = "flushed"
    /\ tasks' = [tasks EXCEPT ![sess[s].tid] =
                    [f \in DOMAIN @ |-> IF f \in sess[s].changed THEN sess[s].row[1][f] ELSE @[f]]]
    /\ sess' = [sess EXCEPT ![s].pc = "done"]
    /\ result' = Returned("update_task_status", Ok)
    /\ UNCHANGED <<pipelines, runs, now, dagInput, dagResult, auth>>

----------------------------------------------------------------------------
(* trigger_pipeline and the reads of a run, step by step in a session.     *)
(* autocommit=False (session.py:38): what a session flushed is seen by     *)
(* others only after its commit (session.py:69); an exception before that  *)
(* ends the transaction without it (session.py:70-74).  A row's id is its  *)
(* position in the table, so the session's task rows name their run when   *)
(* the rows are published.                                                 *)

\* an error of the database driver raised by a flush
DBAPIError == [kind |-> "DBAPIError", msg |-> "flush", args |-> <<>>]

\* sessions holding a run that is not committed yet
PendingRuns == {s \in Sessions : sess[s].pc \in {"run_flushed", "tasks_flushed"}}

\* Mutant of TriggerFlushRun: the flushed run is committed at once.
TriggerFlushRun_autocommit(s, t, pid) ==
    /\ sess[s].pc = "idle"
    /\ trigger_pipeline_outcome(t, pid) = Ok
    /\ Len(runs) + Cardinality(PendingRuns) < MaxRuns
    /\ runs' = Append(runs, PipelineRun(t, pid))
    /\ sess' = [sess EXCEPT ![s].pc = "done"]
    /\ result' = Returned("trigger_pipeline", DBAPIError)
    /\ UNCHANGED <<pipelines, tasks, now, dagInput, dagResult, auth>>

\* service.py:227-243: get_pipeline, the enabled check, add and flush of the run
TriggerFlushRun(s, t, pid) ==
    /\ sess[s].pc = "idle"
    /\ LET out == trigger_pipeline_outcome(t, pid) IN
       IF out.kind # "ok"
       THEN /\ sess' = [sess EXCEPT ![s].pc = "done"]
            /\ result' = Returned("trigger_pipeline", out)
       ELSE /\ Len(runs) + Cardinality(PendingRuns) < MaxRuns
            /\ sess' = [sess EXCEPT ![s].pc = "run_flushed",
                                    ![s].row = Some([run |-> PipelineRun(t, pid),
                                                     dag |-> pipelines[pid].dag_definition,
                                                     tasks |-> <<>>])]
            /\ UNCHANGED <<result, auth>>
    /\ UNCHANGED <<pipelines, runs, tasks, now, dagInput, dagResult, auth>>

\* service.py:245-256: one PipelineTask per task_def, added and flushed
TriggerFlushTasks(s) ==
    /\ sess[s].pc = "run_flushed"
    /\ LET held == sess[s].row[1] IN
       sess' = [sess EXCEPT ![s].pc = "tasks_flushed",
                            ![s].row = Some([held EXCEPT !.tasks =
                                NewTasks(held.run.tenant_id, NoId, held.dag)])]
    /\ UNCHANGED <<pipelines, runs, tasks, now, result, dagInput, dagResult, auth>>

\* session.py:69: the run and its tasks become visible together
CommitTrigger(s) ==
    /\ sess[s].pc = "tasks_flushed"
    /\ runs' = Append(runs, sess[s].row[1].run)
    /\ tasks' = tasks \o [i \in DOMAIN sess[s].row[1].tasks |->
                    [sess[s].row[1].tasks[i] EXCEPT !.pipeline_run_id = Len(runs) + 1]]
    /\ sess' = [sess EXCEPT ![s].pc = "done"]
    /\ result' = Returned("trigger_pipeline", Ok)
    /\ UNCHANGED <<pipelines, now, dagInput, dagResult, auth>>

\* session.py:70-74: a flush (or the commit) raised; nothing is published
AbortTrigger(s) ==
    /\ sess[s].pc \in {"run_flushed", "tasks_flushed"}
    /\ sess' = [sess EXCEPT ![s].pc = "done"]
    /\ result' = Returned("trigger_pipeline", DBAPIError)
    /\ UNCHANGED <<pipelines, runs, tasks, now, dagInput, dagResult, auth>>

\* get_pipeline_run, service.py:260-273: the SELECT of the run
SelectRun(s, t, rid) ==
    /\ sess[s].pc = "idle"
    /\ IF get_pipeline_run(t, rid) = NoId
       THEN /\ sess' = [sess EXCEPT ![s].pc = "done"]
            /\ result' = Returned("get_pipeline_run", NotFoundError("PipelineRun"))
       ELSE /\ sess' = [sess EXCEPT ![s].pc = "run_loaded", ![s].row = Some([rid |-> rid])]
            /\ UNCHANGED <<result, auth>>
    /\ UNCHANGED <<pipelines, runs, tasks, now, dagInput, dagResult, auth>>

\* selectinload(PipelineRun.tasks), service.py:264: a second SELECT loads
\* the run's tasks; the call returns the run with the task_ids it saw
SelectRunTasks(s) ==
    /\ sess[s].pc = "run_loaded"
    /\ LET rid == sess[s].row[1].rid
           seen == SelectSeq(tasks, LAMBDA k : k.pipeline_run_id = rid)
       IN  result' = Returned("get_pipeline_run",
                        [kind |-> "ok", msg |-> "PipelineRun",
                         args |-> <<rid, [i \in DOMAIN seen |-> seen[i].task_id]>>])
    /\ sess' = [sess EXCEPT ![s].pc = "done"]
    /\ UNCHANGED <<pipelines, runs, tasks, now, dagInput, dagResult, auth>>

NextConc ==
    \/ \E dag \in DagInputs, enabled \in BOOLEAN :
          /\ Len(pipelines) < MaxRunPipelines
          /\ \A s \in Sessions : sess[s].pc = "idle"
          /\ create_pipeline(RunTenant, RunName, dag, enabled)
    \/ \E t \in Tenants, pid \in PipelineIds :
          /\ \A s \in Sessions : sess[s].pc = "idle"
          /\ trigger_pipeline(t, pid)
    \/ \E s \in Sessions, t \in Tenants, tid \in TaskRowIds :
          /\ get_task(t, tid) = NoId
          /\ SelectTask(s, t, tid, RUNNING, None, None)
    \/ \E s \in Sessions, t \in Tenants, tid \in TaskRowIds, status \in PipelineStatus,
          msg \in Messages, logs \in Messages :
          /\ get_task(t, tid) # NoId
          /\ SelectTask(s, t, tid, status, msg, logs)
    \/ \E s \in Sessions : FlushTask(s)
    \/ \E s \in Sessions : CommitTask(s)
    \/ \E s \in Sessions, t \in Tenants, pid \in PipelineIds : TriggerFlushRun(s, t, pid)
    \/ \E s \in Sessions : TriggerFlushTasks(s)
    \/ \E s \in Sessions : CommitTrigger(s)
    \/ \E s \in Sessions : AbortTrigger(s)
    \/ \E s \in Sessions, t \in Tenants, rid \in RunIds : SelectRun(s, t, rid)
    \/ \E s \in Sessions : SelectRunTasks(s)

SpecConc == InitConc /\ [][NextConc]_vars

----------------------------------------------------------------------------
(* The validator as a pure function: every dag_definition of the bounded   *)
(* set is handed to _validate_dag once.                                    *)

UniqueIds(tlist) == \A i, j \in DOMAIN tlist : tlist[i].task_id = tlist[j].task_id => i = j

DepsResolve(tlist) ==
    \A i \in DOMAIN tlist : Range(tlist[i].dependencies) \subseteq {tlist[j].task_id : j \in DOMAIN tlist}

InitDag ==
    /\ InitStore
    /\ sess = <<>>
    /\ dagInput \in DAGDefinition
    /\ dagResult = None

\* _validate_dag(dagInput); the traversal's final state is kept when line
\* 188 is reached
RunValidate ==
    /\ dagResult = None
    /\ dagResult' = Some([out |-> validate_dag(dagInput),
                          trav |-> IF Len(dagInput) > 0 /\ UniqueIds(dagInput) /\ DepsResolve(dagInput)
                                   THEN Some(check_dag_cycles(dagInput)) ELSE None])
    /\ UNCHANGED <<pipelines, runs, tasks, now, result, dagInput, sess, auth>>

NextDag == RunValidate

SpecDag == InitDag /\ [][NextDag]_vars

----------------------------------------------------------------------------
(* update_run_status and cancel_pipeline_run, step by step in two          *)
(* sessions.  Each call loads the run with a plain SELECT (no FOR UPDATE,  *)
(* no version column), changes the loaded object, flushes an UPDATE of the *)
(* changed columns and is committed by get_session.  cancel_pipeline_run   *)
(* tests the status it loaded and then calls update_run_status, whose own  *)
(* SELECT returns the object the session already holds.                    *)

IdleRun == [pc |-> "idle", op |-> "", rid |-> NoId, status |-> PENDING,
            error_message |-> None, row |-> None, changed |-> {}]

InitRunConc ==
    /\ InitStore
    /\ dagInput = <<>>
    /\ dagResult = None
    /\ sess = [s \in Sessions |-> IdleRun]

\* update_run_status, service.py:312-313: the SELECT
SelectRunForStatus(s, t, rid, status, error_message) ==
    /\ sess[s].pc = "idle"
    /\ IF get_pipeline_run(t, rid) = NoId
       THEN /\ sess' = [sess EXCEPT ![s].pc = "done", ![s].op = "update_run_status"]
            /\ result' = Returned("update_run_status", NotFoundError("PipelineRun"))
       ELSE /\ sess' = [sess EXCEPT ![s] = [pc |-> "loaded", op |-> "update_run_status",
                                            rid |-> rid, status |-> status,
                                            error_message |-> error_message,
                                            row |-> Some(runs[rid]), changed |-> {}]]
            /\ UNCHANGED result
    /\ UNCHANGED <<pipelines, runs, tasks, now, dagInput, dagResult, auth>>

\* cancel_pipeline_run, service.py:330-335: the SELECT and the test of the
\* loaded status; update_run_status(run_id, CANCELLED) follows
SelectRunForCancel(s, t, rid) ==
    /\ sess[s].pc = "idle"
    /\ LET out == cancel_pipeline_run_outcome(t, rid) IN
       IF out.kind # "ok"
       THEN /\ sess' = [sess EXCEPT ![s].pc = "done", ![s].op = "cancel_pipeline_run"]
            /\ result' = Returned("cancel_pipeline_run", out)
       ELSE /\ sess' = [sess EXCEPT ![s] = [pc |-> "loaded", op |-> "cancel_pipeline_run",
                                            rid |-> rid, status |-> CANCELLED,
                                            error_message |-> None,
                                            row |-> Some(runs[rid]), changed |-> {}]]
            /\ UNCHANGED result
    /\ UNCHANGED <<pipelines, runs, tasks, now, dagInput, dagResult, auth>>

\* service.py:315-325: the assignments and the flush; the UPDATE waits
\* while another transaction holds the row's lock
FlushRun(s) ==
    /\ sess[s].pc = "loaded"
    /\ \A o \in Sessions \ {s} : ~(sess[o].pc = "flushed" /\ sess[o].rid = sess[s].rid)
    /\ LET old == sess[s].row[1]
           new == update_run_status_row(old, sess[s].status, sess[s].error_message)
       IN  /\ Stamps(old, new) => now < MaxTime
           /\ sess' = [sess EXCEPT ![s].pc = "flushed", ![s].row = Some(new),
                                   ![s].changed = ChangedColumns(old, new)]
           /\ now' = IF Stamps(old, new) THEN now + 1 ELSE now
    /\ UNCHANGED <<pipelines, runs, tasks, result, dagInput, dagResult, auth>>

\* session.py:69: the changed columns overwrite the committed row's
CommitRun(s) ==
    /\ sess[s].pc = "flushed"
    /\ runs' = [runs EXCEPT ![sess[s].rid] =
                   [f \in DOMAIN @ |-> IF f \in sess[s].changed THEN sess[s].row[1][f] ELSE @[f]]]
    /\ sess' = [sess EXCEPT ![s].pc = "done"]
    /\ result' = Returned(sess[s].op, Ok)
    /\ UNCHANGED <<pipelines, tasks, now, dagInput, dagResult, auth>>

NextRunConc ==
    \/ \E dag \in DagInputs, enabled \in BOOLEAN :
          /\ Len(pipelines) < MaxRunPipelines
          /\ \A s \in Sessions : sess[s].pc = "idle"
          /\ create_pipeline(RunTenant, RunName, dag, enabled)
    \/ \E t \in Tenants, pid \in PipelineIds :
          /\ \A s \in Sessions : sess[s].pc = "idle"
          /\ trigger_pipeline(t, pid)
    \/ \E s \in Sessions, t \in Tenants, rid \in RunIds, status \in {SUCCESS, FAILED},
          msg \in Messages : SelectRunForStatus(s, t, rid, status, msg)
    \/ \E s \in Sessions, t \in Tenants, rid \in RunIds : SelectRunForCancel(s, t, rid)
    \/ \E s \in Sessions : FlushRun(s)
    \/ \E s \in Sessions : CommitRun(s)

SpecRunConc == InitRunConc /\ [][NextRunConc]_vars

----------------------------------------------------------------------------
(* A run under an executor that reports every task: the pipeline is        *)
(* created and triggered, the worker runs execute_pipeline for the run,    *)
(* and the executor reports SUCCESS or FAILED, through update_task_status, *)
(* for every task that has no final status yet.  The run can be read at    *)
(* any time.  A user's cancel_pipeline_run and a direct update_run_status  *)
(* are calls that no scheduling brings about; SpecRun has them.            *)

\* DAGs each of whose tasks finds a clock tick for its report
LiveDags == {d \in {IsoDag, DagChain, DagPair} : Len(d) <= MaxTime}

\* the executor's report on task row tid
ExecutorReport(tid) ==
    /\ tid \in DOMAIN tasks
    /\ tasks[tid].status \notin Terminal
    /\ \E status \in {SUCCESS, FAILED}, msg \in Messages, logs \in Messages :
          update_task_status(tasks[tid].tenant_id, tid, status, msg, logs)

\* the worker picks the run up
WorkerExecutes ==
    \E rid \in DOMAIN runs :
        execute_pipeline(rid, runs[rid].tenant_id, runs[rid].pipeline_id)

NextLive ==
    \/ \E dag \in LiveDags, enabled \in BOOLEAN :
          /\ Len(pipelines) < MaxRunPipelines
          /\ create_pipeline(RunTenant, RunName, dag, enabled)
    \/ \E pid \in PipelineIds : trigger_pipeline(RunTenant, pid)
    \/ WorkerExecutes
    \/ \E tid \in 1..MaxTasks : ExecutorReport(tid)
    \/ \E rid \in RunIds : GetPipelineRun(RunTenant, rid)

\* the executor leaves no task unreported, and the worker runs
SpecLive ==
    /\ Init
    /\ [][NextLive]_vars
    /\ \A tid \in 1..MaxTasks : WF_vars(ExecutorReport(tid))
    /\ WF_vars(WorkerExecutes)

----------------------------------------------------------------------------
(* TokenPayload.has_role, core/security.py:172-186.  A str is a sequence   *)
(* of its characters, so that str.lower() is computed letter by letter.    *)

viewer == <<"v", "i", "e", "w", "e", "r">>

data_scientist == <<"d", "a", "t", "a", "_", "s", "c", "i", "e", "n", "t", "i", "s", "t">>

ml_engineer == <<"m", "l", "_", "e", "n", "g", "i", "n", "e", "e", "r">>

admin == <<"a", "d", "m", "i", "n">>

\* a role name that role_hierarchy does not have
owner == <<"o", "w", "n", "e", "r">>

\* the cased letters of these names, lower and upper case at equal positions
LowerLetters == <<"a", "c", "d", "e", "g", "i", "l", "m", "n", "o", "r", "s", "t", "v", "w">>

UpperLetters == <<"A", "C", "D", "E", "G", "I", "L", "M", "N", "O", "R", "S", "T", "V", "W">>

\* str.lower() / str.upper(): cased letters are mapped, "_" stays
lower(s) ==
    [i \in DOMAIN s |->
        IF \E k \in DOMAIN UpperLetters : UpperLetters[k] = s[i]
        THEN LowerLetters[CHOOSE k \in DOMAIN UpperLetters : UpperLetters[k] = s[i]]
        ELSE s[i]]

upper(s) ==
    [i \in DOMAIN s |->
        IF \E k \in DOMAIN LowerLetters : LowerLetters[k] = s[i]
        THEN UpperLetters[CHOOSE k \in DOMAIN LowerLetters : LowerLetters[k] = s[i]]
        ELSE s[i]]

\* role_hierarchy, security.py:178-183
role_hierarchy ==
    [r \in {viewer, data_scientist, ml_engineer, admin} |->
        IF r = viewer THEN 1
        ELSE IF r = data_scientist THEN 2
        ELSE IF r = ml_engineer THEN 3
        ELSE 4]

\* dict.get(key, default)
get(d, key, default) == IF key \in DOMAIN d THEN d[key] ELSE default

\* role: the token's "role" claim, None when the payload has none
has_role(role, required_role) ==
    IF role = None \/ role = Some(<<>>) THEN FALSE
    ELSE LET user_level == get(role_hierarchy, lower(role[1]), 0)
             required_level == get(role_hierarchy, lower(required_role), 0)
         IN  user_level >= required_level

\* role strings a token carries or a caller asks for: each name in lower
\* case, in upper case (UserRole's values, models.py:45-51), capitalised,
\* and the empty string
RoleNames == {viewer, data_scientist, ml_engineer, admin, owner}

Capitalised(s) == [i \in DOMAIN s |-> IF i = 1 THEN upper(s)[i] ELSE s[i]]

RoleStrings == UNION {{r, upper(r), Capitalised(r)} : r \in RoleNames} \cup {<<>>}

InitRole ==
    /\ pipelines = <<>>
    /\ runs = <<>>
    /\ tasks = <<>>
    /\ now = 0
    /\ result = Returned("init", Ok)
    /\ dagInput = <<>>
    /\ dagResult = None
    /\ sess = <<>>
    /\ \E role \in {None} \cup {Some(s) : s \in RoleStrings}, required_role \in RoleStrings :
          auth = Some([role |-> role, required_role |-> required_role, answer |-> None])

\* payload.has_role(required_role)
HasRole ==
    /\ auth[1].answer = None
    /\ auth' = Some([auth[1] EXCEPT
                        !.answer = Some(has_role(auth[1].role, auth[1].required_role))])
    /\ UNCHANGED <<pipelines, runs, tasks, now, result, dagInput, dagResult, sess>>

NextRole == HasRole

SpecRole == InitRole /\ [][NextRole]_vars

----------------------------------------------------------------------------
(* Graph notions the claims are stated with *)

\* the ids the task `id` lists as dependencies
DepsOf(tlist, id) == UNION {Range(tlist[i].dependencies) : i \in {k \in DOMAIN tlist : tlist[k].task_id = id}}

\* least set containing S and closed under DepsOf
RECURSIVE DepClosure(_, _)
DepClosure(tlist, S) ==
    LET more == S \cup UNION {DepsOf(tlist, id) : id \in S}
    IN  IF more = S THEN S ELSE DepClosure(tlist, more)

\* what `id` depends on directly or transitively
Upstream(tlist, id) == DepClosure(tlist, DepsOf(tlist, id))

HasCycle(tlist) == \E i \in DOMAIN tlist : tlist[i].task_id \in Upstream(tlist, tlist[i].task_id)

CycleError == ValidationError("DAG contains a cycle", <<>>)

----------------------------------------------------------------------------
(* C1: for a task list with unique task_ids and resolving dependencies,    *)
(* validation ends with the cycle error exactly when the dependency graph  *)
(* has a directed cycle (a self-dependency and a cycle off the first       *)
(* task's component included), and a non-empty acyclic list is accepted.   *)
C1_CycleErrorIffCycle ==
    (dagResult # None /\ UniqueIds(dagInput) /\ DepsResolve(dagInput)) =>
        /\ (dagResult[1].out = CycleError) <=> HasCycle(dagInput)
        /\ (Len(dagInput) > 0 /\ ~HasCycle(dagInput)) => dagResult[1].out = Ok

\* a 2-cycle between B and C that the first task A does not reach, rejected
C1_Witness ==
    /\ dagInput = <<T("A", <<>>), T("B", <<"C">>), T("C", <<"B">>)>>
    /\ dagResult # None
    /\ dagResult[1].out = CycleError

----------------------------------------------------------------------------
(* C2: whatever create_pipeline, update_pipeline and delete_pipeline calls *)
(* were made, successful or failing, every stored pipeline's               *)
(* dag_definition has at least one task, no repeated task_id, no           *)
(* dependency on an absent task_id, no task depending on itself, and no    *)
(* cycle.                                                                  *)
WellFormedDag(tlist) ==
    /\ Len(tlist) >= 1
    /\ UniqueIds(tlist)
    /\ DepsResolve(tlist)
    /\ \A i \in DOMAIN tlist : tlist[i].task_id \notin Range(tlist[i].dependencies)
    /\ ~HasCycle(tlist)

C2_StoredDagsWellFormed ==
    \A i \in DOMAIN pipelines : WellFormedDag(pipelines[i].dag_definition)

\* a pipeline is stored and a create_pipeline with a cyclic DAG was just refused
C2_Witness ==
    /\ Len(pipelines) >= 1
    /\ result = Returned("create_pipeline", CycleError)

----------------------------------------------------------------------------
(* Notions of the run-lifecycle claims *)

\* the DAG a run was created from; no handler replaces a stored
\* dag_definition, so this is the DAG as it was at trigger time
RunDag(rid) == pipelines[runs[rid].pipeline_id].dag_definition

\* the row of run rid's task with this task_id
TaskRow(rid, id) == CHOOSE k \in get_pipeline_tasks(rid) : tasks[k].task_id = id

\* rows of the tasks that task row k depends on, directly / transitively
DepRows(k) ==
    {TaskRow(tasks[k].pipeline_run_id, d) :
        d \in DepsOf(RunDag(tasks[k].pipeline_run_id), tasks[k].task_id)}

UpstreamRows(k) ==
    {TaskRow(tasks[k].pipeline_run_id, d) :
        d \in Upstream(RunDag(tasks[k].pipeline_run_id), tasks[k].task_id)}

\* PENDING -> RUNNING -> {SUCCESS, FAILED, CANCELLED}, terminal statuses
\* reachable from PENDING or RUNNING only
Moves == ({PENDING} \X {RUNNING}) \cup ({PENDING, RUNNING} \X Terminal)

----------------------------------------------------------------------------
(* C3: dispatch is dependency-gated: a step moves a task to RUNNING only   *)
(* if every task it depends on (per the run's DAG) is SUCCESS.             *)
C3_DependencyGatedDispatch ==
    [][\A k \in DOMAIN tasks :
          (tasks[k].status # RUNNING /\ tasks'[k].status = RUNNING) =>
              \A d \in DepRows(k) : tasks[d].status = SUCCESS]_vars

----------------------------------------------------------------------------
(* C4: failure propagation: in every state, a task with a FAILED task      *)
(* among those it depends on, directly or transitively, is CANCELLED and   *)
(* was never RUNNING, and its run is FAILED.                               *)
C4_FailurePropagation ==
    \A k \in DOMAIN tasks :
        (\E u \in UpstreamRows(k) : tasks[u].status = FAILED) =>
            /\ tasks[k].status = CANCELLED
            /\ tasks[k].start_time = None
            /\ runs[tasks[k].pipeline_run_id].status = FAILED

----------------------------------------------------------------------------
(* C5: a run all of whose tasks are SUCCESS is SUCCESS and has its         *)
(* end_time set: update_task_status applied the run-level transition in    *)
(* the call that recorded the last SUCCESS.                                *)
C5_AllTasksSuccessRunSuccess ==
    \A rid \in DOMAIN runs :
        (\A k \in get_pipeline_tasks(rid) : tasks[k].status = SUCCESS) =>
            /\ runs[rid].status \notin {PENDING, RUNNING}
            /\ runs[rid].status = SUCCESS
            /\ runs[rid].end_time # None

----------------------------------------------------------------------------
(* C7: terminal run statuses are absorbing: a run's status changes only    *)
(* along PENDING -> RUNNING -> {SUCCESS, FAILED, CANCELLED}, and a step    *)
(* leaves a run that is SUCCESS, FAILED or CANCELLED as it is.             *)
C7_TerminalRunAbsorbing ==
    [][\A rid \in DOMAIN runs :
          /\ runs'[rid].status # runs[rid].status =>
                 <<runs[rid].status, runs'[rid].status>> \in Moves
          /\ runs[rid].status \in Terminal => runs'[rid] = runs[rid]]_vars

----------------------------------------------------------------------------
(* C8: a successful cancel_pipeline_run sets the run to CANCELLED and      *)
(* every PENDING or RUNNING task of it to CANCELLED, and leaves its other  *)
(* tasks as they were.                                                     *)
C8_CancelCancelsTasks ==
    [][\A t \in Tenants, rid \in DOMAIN runs :
          (cancel_pipeline_run(t, rid) /\ result'.out = Ok) =>
              /\ runs'[rid].status = CANCELLED
              /\ \A k \in get_pipeline_tasks(rid) :
                    IF tasks[k].status \in {PENDING, RUNNING}
                    THEN tasks'[k].status = CANCELLED
                    ELSE tasks'[k] = tasks[k]]_vars

----------------------------------------------------------------------------
(* C9: cancel_pipeline_run on a run of the caller's tenant that is         *)
(* SUCCESS, FAILED or CANCELLED fails with ValidationError 'Cannot cancel  *)
(* a completed pipeline run' and changes neither the run nor any task.     *)
CannotCancel == ValidationError("Cannot cancel a completed pipeline run", <<>>)

C9_CancelTerminalRejected ==
    [][\A t \in Tenants, rid \in DOMAIN runs :
          (/\ cancel_pipeline_run(t, rid)
           /\ runs[rid].tenant_id = t
           /\ runs[rid].status \in Terminal) =>
              /\ result' = Returned("cancel_pipeline_run", CannotCancel)
              /\ runs' = runs
              /\ tasks' = tasks]_vars

\* a finished run, with end_time and error_message set, was just refused
C9_Witness ==
    /\ result = Returned("cancel_pipeline_run", CannotCancel)
    /\ \E rid \in DOMAIN runs :
          /\ runs[rid].status = FAILED
          /\ runs[rid].end_time # None
          /\ runs[rid].error_message # None

----------------------------------------------------------------------------
(* C10: a task's status changes only along PENDING -> RUNNING ->           *)
(* {SUCCESS, FAILED, CANCELLED}: never from RUNNING back to PENDING, and a *)
(* step leaves a task that is SUCCESS, FAILED or CANCELLED as it is        *)
(* (status, timestamps, error_message, logs).                              *)
C10_TaskStatusMachine ==
    [][\A k \in DOMAIN tasks :
          /\ tasks'[k].status # tasks[k].status =>
                 <<tasks[k].status, tasks'[k].status>> \in Moves
          /\ tasks[k].status \in Terminal => tasks'[k] = tasks[k]]_vars

----------------------------------------------------------------------------
(* C11: trigger_pipeline on an existing pipeline of the caller whose       *)
(* enabled flag is false fails with ValidationError 'Pipeline is disabled' *)
(* and the runs and tasks tables are the same before and after the call.   *)
PipelineDisabled == ValidationError("Pipeline is disabled", <<>>)

C11_DisabledTriggerRejected ==
    [][\A t \in Tenants, pid \in DOMAIN pipelines :
          (/\ trigger_pipeline(t, pid)
           /\ get_pipeline(t, pid) # NoId
           /\ ~pipelines[pid].enabled) =>
              /\ result' = Returned("trigger_pipeline", PipelineDisabled)
              /\ runs' = runs
              /\ tasks' = tasks]_vars

\* a pipeline that ran while enabled was disabled, and its trigger refused
C11_Witness ==
    /\ result = Returned("trigger_pipeline", PipelineDisabled)
    /\ \E rid \in DOMAIN runs :
          /\ ~pipelines[runs[rid].pipeline_id].enabled
          /\ pipelines[runs[rid].pipeline_id].deleted_at = None
          /\ get_pipeline_tasks(rid) # {}

----------------------------------------------------------------------------
(* Notions of the update claims *)

\* the DAGs among the inputs that _validate_dag refuses / accepts
InvalidDags == {d \in DagInputs \cup UpdateDags : validate_dag(d) # Ok}

ValidDags == (DagInputs \cup UpdateDags) \ InvalidDags

\* update_pipeline(t, pid, data) ran on a pipeline t can see, with a DAG of D
UpdatesDag(t, pid, data, D) ==
    /\ result'.op = "update_pipeline"
    /\ get_pipeline(t, pid) # NoId
    /\ data.dag_definition # None
    /\ data.dag_definition[1] \in D
    /\ update_pipeline(t, pid, data)

----------------------------------------------------------------------------
----------------------------------------------------------------------------
(* C14: update_pipeline on an existing pipeline ends with the pipeline, a  *)
(* ValidationError or a NotFoundError; when the request carries a DAG that *)
(* passes validation it succeeds and the stored dag_definition is the      *)
(* replacement.                                                            *)
C14_UpdateReplacesDag ==
    [][\A t \in Tenants, pid \in DOMAIN pipelines, data \in PipelineUpdate :
          /\ (result'.op = "update_pipeline" /\ update_pipeline(t, pid, data)) =>
                 result'.out.kind \in {"ok", "ValidationError", "NotFoundError"}
          /\ UpdatesDag(t, pid, data, ValidDags) =>
                 /\ result'.out = Ok
                 /\ pipelines'[pid].dag_definition = data.dag_definition[1]]_vars

----------------------------------------------------------------------------
(* C15: a create_pipeline (under a name free for the tenant) or an         *)
(* update_pipeline (of an existing pipeline) whose DAG fails validation    *)
(* fails with the validator's ValidationError and leaves the pipelines     *)
(* table as it was.                                                        *)
C15_ValidationBeforePersistence ==
    [][/\ \A t \in Tenants, name \in Names, dag \in InvalidDags \cap DagInputs, enabled \in BOOLEAN :
             (/\ result'.op = "create_pipeline"
              /\ ~\E i \in DOMAIN pipelines : pipelines[i].tenant_id = t /\ pipelines[i].name = name
              /\ create_pipeline(t, name, dag, enabled)) =>
                 /\ result'.out = validate_dag(dag)
                 /\ pipelines' = pipelines
       /\ \A t \in Tenants, pid \in DOMAIN pipelines, data \in PipelineUpdate :
             UpdatesDag(t, pid, data, InvalidDags) =>
                 /\ result'.out = validate_dag(data.dag_definition[1])
                 /\ pipelines' = pipelines]_vars

----------------------------------------------------------------------------
(* C19: a DAG with no task is refused with ValidationError 'DAG must have  *)
(* at least one task', by create_pipeline (under a name free for the       *)
(* tenant) and by update_pipeline (of an existing pipeline) alike.         *)
EmptyDAG == ValidationError("DAG must have at least one task", <<>>)

C19_EmptyDagRejected ==
    [][/\ \A t \in Tenants, name \in Names, enabled \in BOOLEAN :
             (/\ result'.op = "create_pipeline"
              /\ ~\E i \in DOMAIN pipelines : pipelines[i].tenant_id = t /\ pipelines[i].name = name
              /\ create_pipeline(t, name, <<>>, enabled)) =>
                 result'.out = EmptyDAG
       /\ \A t \in Tenants, pid \in DOMAIN pipelines, data \in PipelineUpdate :
             UpdatesDag(t, pid, data, {<<>>}) => result'.out = EmptyDAG]_vars

----------------------------------------------------------------------------
(* C12: run creation is atomic.  Every step that publishes a run publishes *)
(* one run, PENDING, with its tasks PENDING; after every step, each run in *)
(* the committed tables has exactly one task row per TaskDefinition of its *)
(* pipeline's DAG, in the DAG's order, and a get_pipeline_run that another *)
(* session completed returned the run with exactly those task_ids - while  *)
(* a trigger is between its flushes, after it committed, and after it      *)
(* failed midway.                                                          *)
DagTaskIds(dag) == [i \in DOMAIN dag |-> dag[i].task_id]

RunTaskIds(rid) ==
    LET own == SelectSeq(tasks, LAMBDA k : k.pipeline_run_id = rid)
    IN  [i \in DOMAIN own |-> own[i].task_id]

RunsComplete ==
    /\ \A rid \in DOMAIN runs : RunTaskIds(rid) = DagTaskIds(RunDag(rid))
    /\ (result.op = "get_pipeline_run" /\ result.out.kind = "ok") =>
           result.out.args[2] = DagTaskIds(RunDag(result.out.args[1]))

C12_AtomicRunCreation ==
    [][/\ RunsComplete'
       /\ Len(runs') <= Len(runs) + 1
       /\ \A rid \in DOMAIN runs' \ DOMAIN runs :
             /\ runs'[rid].status = PENDING
             /\ \A k \in DOMAIN tasks' :
                   tasks'[k].pipeline_run_id = rid => tasks'[k].status = PENDING]_vars

\* a session's trigger committed and the other session then read the run
\* with both of its tasks
C12_Witness ==
    /\ result.op = "get_pipeline_run"
    /\ result.out.kind = "ok"
    /\ result.out.args[2] = <<"A", "B">>
    /\ \E s \in Sessions :
          /\ sess[s].pc = "done"
          /\ sess[s].row # None
          /\ "run" \in DOMAIN sess[s].row[1]
          /\ Len(sess[s].row[1].tasks) = 2

----------------------------------------------------------------------------
(* C16: the tasks ready in a run are those that are PENDING with every     *)
(* dependency SUCCESS - for 'A, B depends on A': {A} on a fresh run, {B}   *)
(* once A is SUCCESS, {} once B is SUCCESS - and a call of the executor    *)
(* on the run takes up exactly the ready tasks.                            *)
ReadyTasks(rid) ==
    {k \in get_pipeline_tasks(rid) :
        tasks[k].status = PENDING /\ \A d \in DepRows(k) : tasks[d].status = SUCCESS}

C16_ReadyTasksTakenUp ==
    [][\A rid \in DOMAIN runs :
          (/\ result'.op = "execute_pipeline"
           /\ execute_pipeline(rid, runs[rid].tenant_id, runs[rid].pipeline_id)) =>
              result'.out.args[2] = Cardinality(ReadyTasks(rid))]_vars

----------------------------------------------------------------------------
(* C17 as claimed: every task list with a dependency on a task_id that no  *)
(* task of the list has is refused with the unknown-dependency error,      *)
(* which names a task of the list and an absent id among its dependencies, *)
(* whatever else is wrong with the list.                                   *)
UnknownDependencyNamed(tlist, out) ==
    /\ out.kind = "ValidationError"
    /\ out.msg = "depends on unknown task"
    /\ \E i \in DOMAIN tlist :
          \E j \in DOMAIN tlist[i].dependencies :
             /\ out.args = <<tlist[i].task_id, tlist[i].dependencies[j]>>
             /\ \A k \in DOMAIN tlist : tlist[k].task_id # tlist[i].dependencies[j]

C17_UnknownDependencyAlways ==
    (dagResult # None /\ ~DepsResolve(dagInput)) =>
        UnknownDependencyNamed(dagInput, dagResult[1].out)

\* C17 as amended: the same for every such task list in which no task_id
\* is repeated (a repeated task_id is reported first, service.py:171-177),
\* whatever cycles it has.
C17_UnknownDependencyUnlessDuplicate ==
    (dagResult # None /\ UniqueIds(dagInput) /\ ~DepsResolve(dagInput)) =>
        UnknownDependencyNamed(dagInput, dagResult[1].out)

\* A and B depend on each other and A also on the absent C
C17_Witness ==
    /\ dagInput = <<T("A", <<"B", "C">>), T("B", <<"A">>)>>
    /\ dagResult # None
    /\ dagResult[1].out = ValidationError("depends on unknown task", <<"A", "C">>)

----------------------------------------------------------------------------
(* C18: every task list in which two tasks have the same task_id is        *)
(* refused with the duplicate error carrying an id that two tasks share,   *)
(* wherever the two tasks stand in the list and whatever they depend on.   *)
C18_DuplicateRejected ==
    (dagResult # None /\ ~UniqueIds(dagInput)) =>
        /\ dagResult[1].out.kind = "ValidationError"
        /\ dagResult[1].out.msg = "Duplicate task_id"
        /\ \E i, j \in DOMAIN dagInput :
              /\ i # j
              /\ dagInput[i].task_id = dagInput[j].task_id
              /\ dagResult[1].out.args = <<dagInput[i].task_id>>

\* the first and the last task are both A, with an absent dependency and a
\* self-dependency in the list
C18_Witness ==
    /\ dagInput = <<T("A", <<"C">>), T("B", <<"B">>), T("A", <<>>)>>
    /\ dagResult # None
    /\ dagResult[1].out = ValidationError("Duplicate task_id", <<"A">>)

----------------------------------------------------------------------------
(* Notions of the tenant-isolation claim *)

ForeignPipeline(t, pid) == pid \in DOMAIN pipelines /\ pipelines[pid].tenant_id # t

ForeignRun(t, rid) == rid \in DOMAIN runs /\ runs[rid].tenant_id # t

ForeignTask(t, tid) == tid \in DOMAIN tasks /\ tasks[tid].tenant_id # t

\* the step left every row of another tenant as it was, and the rows it
\* added carry tenant t
Frame(t) ==
    /\ \A i \in DOMAIN pipelines : pipelines[i].tenant_id # t => pipelines'[i] = pipelines[i]
    /\ \A i \in DOMAIN runs : runs[i].tenant_id # t => runs'[i] = runs[i]
    /\ \A i \in DOMAIN tasks : tasks[i].tenant_id # t => tasks'[i] = tasks[i]
    /\ \A i \in DOMAIN pipelines' \ DOMAIN pipelines : pipelines'[i].tenant_id = t
    /\ \A i \in DOMAIN runs' \ DOMAIN runs : runs'[i].tenant_id = t
    /\ \A i \in DOMAIN tasks' \ DOMAIN tasks : tasks'[i].tenant_id = t

\* the step answered NotFound and wrote nothing
Refused ==
    /\ result'.out.kind = "NotFoundError"
    /\ pipelines' = pipelines
    /\ runs' = runs
    /\ tasks' = tasks

\* the step answered with no row: NotFound where `strict`, else None / []
NoRow(strict) == IF strict THEN Refused ELSE result'.out = Found(<<>>)

\* every id of the answer is a row of tenant t in the table
OwnRows(t, table, ids) == \A i \in DOMAIN ids : table[ids[i]].tenant_id = t

Called(op) == result'.op = op

\* what isolation asks of one step, for every call that may have been it
IsolationStep(strict) ==
    \A t \in Tenants :
       /\ Called("create_pipeline") =>
             \A enabled \in BOOLEAN :
                create_pipeline(t, RunName, IsoDag, enabled) =>
                   /\ Frame(t)
                   /\ (\A i \in DOMAIN pipelines :
                          ~(pipelines[i].tenant_id = t /\ pipelines[i].name = RunName)) =>
                         result'.out = Ok
       /\ Called("update_pipeline") =>
             \A pid \in PipelineIds, data \in IsoUpdates :
                update_pipeline(t, pid, data) =>
                   Frame(t) /\ (ForeignPipeline(t, pid) => Refused)
       /\ Called("delete_pipeline") =>
             \A pid \in PipelineIds :
                delete_pipeline(t, pid) =>
                   Frame(t) /\ (ForeignPipeline(t, pid) => Refused)
       /\ Called("trigger_pipeline") =>
             \A pid \in PipelineIds :
                trigger_pipeline(t, pid) =>
                   Frame(t) /\ (ForeignPipeline(t, pid) => Refused)
       /\ Called("get_pipeline") =>
             \A pid \in PipelineIds :
                GetPipeline(t, pid) =>
                   /\ ForeignPipeline(t, pid) => Refused
                   /\ result'.out.kind = "ok" => OwnRows(t, pipelines, result'.out.args)
       /\ Called("list_pipelines") =>
             \A enabled_only \in BOOLEAN :
                ListPipelines(t, enabled_only) => OwnRows(t, pipelines, result'.out.args)
       /\ Called("list_pipeline_runs") =>
             \A pid \in PipelineIds :
                ListPipelineRuns(t, pid) =>
                   /\ ForeignPipeline(t, pid) => NoRow(strict)
                   /\ result'.out.kind = "ok" => OwnRows(t, runs, result'.out.args)
       /\ Called("get_last_run") =>
             \A pid \in PipelineIds :
                GetLastRun(t, pid) =>
                   /\ ForeignPipeline(t, pid) => NoRow(strict)
                   /\ result'.out.kind = "ok" => OwnRows(t, runs, result'.out.args)
       /\ Called("update_run_status") =>
             \A rid \in RunIds, status \in IsoStatuses :
                update_run_status(t, rid, status, None) =>
                   Frame(t) /\ (ForeignRun(t, rid) => Refused)
       /\ Called("cancel_pipeline_run") =>
             \A rid \in RunIds :
                cancel_pipeline_run(t, rid) =>
                   Frame(t) /\ (ForeignRun(t, rid) => Refused)
       /\ Called("get_pipeline_run") =>
             \A rid \in RunIds :
                GetPipelineRun(t, rid) =>
                   /\ ForeignRun(t, rid) => Refused
                   /\ result'.out.kind = "ok" => runs[result'.out.args[1]].tenant_id = t
       /\ Called("get_pipeline_tasks") =>
             \A rid \in RunIds :
                GetPipelineTasks(t, rid) =>
                   /\ ForeignRun(t, rid) => Refused
                   /\ result'.out.kind = "ok" => OwnRows(t, tasks, result'.out.args)
       /\ Called("update_task_status") =>
             \A tid \in TaskRowIds, status \in IsoStatuses :
                update_task_status(t, tid, status, Some("m"), None) =>
                   Frame(t) /\ (ForeignTask(t, tid) => Refused)

----------------------------------------------------------------------------
(* C20 as claimed: a call of tenant T leaves every pipeline, run and task  *)
(* of another tenant as it was and returns none of them; the rows it adds  *)
(* carry tenant T; create_pipeline succeeds whenever T itself has no       *)
(* pipeline of the name; and every operation that is handed an id of       *)
(* another tenant's row answers NotFound and writes nothing.               *)
C20_TenantIsolationNotFound == [][IsolationStep(TRUE)]_vars

\* C20 as amended: the same, except that list_pipeline_runs and
\* get_last_run, handed another tenant's pipeline id, answer with the empty
\* list and None, as they do for an id no row has.
C20_TenantIsolation == [][IsolationStep(FALSE)]_vars

\* both tenants have a live pipeline, the first one's has a run with its
\* task, and the second tenant's list_pipelines returned its own pipeline
C20_Witness ==
    /\ result = Returned("list_pipelines", Found(<<2>>))
    /\ Len(pipelines) = 2
    /\ pipelines[1].tenant_id # pipelines[2].tenant_id
    /\ pipelines[1].deleted_at = None
    /\ pipelines[1].enabled
    /\ \E rid \in DOMAIN runs : runs[rid].pipeline_id = 1 /\ get_pipeline_tasks(rid) # {}

----------------------------------------------------------------------------
(* C21: after every step, a run or task has its end_time set exactly when  *)
(* its status is SUCCESS, FAILED or CANCELLED, and a status update to      *)
(* FAILED that supplies an error_message leaves that message on the row.   *)
C21_EndTimeIffTerminal ==
    [][/\ \A rid \in DOMAIN runs' :
             runs'[rid].end_time # None <=> runs'[rid].status \in Terminal
       /\ \A k \in DOMAIN tasks' :
             tasks'[k].end_time # None <=> tasks'[k].status \in Terminal
       /\ Called("update_run_status") =>
             \A t \in Tenants, rid \in DOMAIN runs, msg \in Messages :
                 (/\ Truthy(msg)
                  /\ update_run_status(t, rid, FAILED, msg)
                  /\ result'.out = Ok) => runs'[rid].error_message = msg
       /\ Called("update_task_status") =>
             \A t \in Tenants, k \in DOMAIN tasks, msg \in Messages, logs \in Messages :
                 (/\ Truthy(msg)
                  /\ update_task_status(t, k, FAILED, msg, logs)
                  /\ result'.out = Ok) => tasks'[k].error_message = msg]_vars

----------------------------------------------------------------------------
(* C22: a start_time that is set is never changed: no step gives a run or  *)
(* a task whose start_time is set a different start_time.                  *)
C22_StartTimeNeverOverwritten ==
    [][/\ \A rid \in DOMAIN runs :
             runs[rid].start_time # None => runs'[rid].start_time = runs[rid].start_time
       /\ \A k \in DOMAIN tasks :
             tasks[k].start_time # None =>
                 tasks'[k].start_time = tasks[k].start_time]_vars

----------------------------------------------------------------------------
(* C27: in every state in which a task of a run is RUNNING, or has         *)
(* finished after having run, the run is not PENDING and the run's         *)
(* start_time is set.                                                      *)
C27_RunLeavesPendingAtDispatch ==
    \A k \in DOMAIN tasks :
        (\/ tasks[k].status = RUNNING
         \/ tasks[k].status \in Terminal /\ tasks[k].start_time # None) =>
            /\ runs[tasks[k].pipeline_run_id].status # PENDING
            /\ runs[tasks[k].pipeline_run_id].start_time # None

----------------------------------------------------------------------------
(* C24: every validation run has ended, in acceptance or in a              *)
(* ValidationError, and where the cycle check is reached its traversal     *)
(* has ended having marked each node GRAY at most once                     *)
(* (so dfs is entered at most once per task), never nests dfs deeper than  *)
(* the number of tasks, and, unless it stops at a cycle, has been started  *)
(* from every node still WHITE, leaving every node BLACK.                  *)
C24_TraversalBounded ==
    /\ dagResult # None => dagResult[1].out.kind \in {"ok", "ValidationError"}
    /\ (dagResult # None /\ dagResult[1].trav # None) =>
          LET trav == dagResult[1].trav[1] IN
          /\ \A i, j \in DOMAIN trav.grayed : trav.grayed[i] = trav.grayed[j] => i = j
          /\ Len(trav.grayed) <= Len(dagInput)
          /\ trav.depth <= Len(dagInput)
          /\ ~trav.cycle =>
                /\ Range(trav.grayed) = {dagInput[i].task_id : i \in DOMAIN dagInput}
                /\ \A id \in DOMAIN trav.color : trav.color[id] = BLACK

\* three roots, of which the later two meet neighbors already BLACK
C24_Witness ==
    /\ dagInput = <<T("A", <<>>), T("B", <<"A">>), T("C", <<"A", "B">>)>>
    /\ dagResult # None
    /\ dagResult[1].out = Ok
    /\ dagResult[1].trav # None
    /\ dagResult[1].trav[1].grayed = <<"A", "B", "C">>
    /\ dagResult[1].trav[1].depth = 1

----------------------------------------------------------------------------
(* C26: validation reports the first failing check in the order empty,     *)
(* duplicate task_id, unknown dependency, cycle: a list with a repeated    *)
(* task_id gets the duplicate error whatever dangling dependency it has    *)
(* (in an earlier task too), a list without one but with a dangling        *)
(* dependency gets the unknown-dependency error whatever cycle it has, and *)
(* the cycle error is left to lists that pass the three earlier checks.    *)
C26_FirstFailingCheck ==
    dagResult # None =>
        LET out == dagResult[1].out IN
        IF Len(dagInput) = 0 THEN out = EmptyDAG
        ELSE IF ~UniqueIds(dagInput)
        THEN out.kind = "ValidationError" /\ out.msg = "Duplicate task_id"
        ELSE IF ~DepsResolve(dagInput)
        THEN out.kind = "ValidationError" /\ out.msg = "depends on unknown task"
        ELSE IF HasCycle(dagInput) THEN out = CycleError
        ELSE out = Ok

\* the first task depends on the absent C, the later two are both B
C26_Witness ==
    /\ dagInput = <<T("A", <<"C">>), T("B", <<>>), T("B", <<>>)>>
    /\ dagResult # None
    /\ dagResult[1].out = ValidationError("Duplicate task_id", <<"B">>)

----------------------------------------------------------------------------
(* C25: has_role answers true exactly when the token has a role, the       *)
(* token's role and the required role are both names of the hierarchy      *)
(* admin > ml_engineer > data_scientist > viewer, whatever their case, and *)
(* the token's role stands at or above the required one; it answers false  *)
(* for a token without a role and for a role outside the hierarchy on      *)
(* either side.                                                            *)
Hierarchy == <<admin, ml_engineer, data_scientist, viewer>>

InHierarchy(s) == \E i \in DOMAIN Hierarchy : lower(s) = Hierarchy[i]

\* position in Hierarchy: 1 is the highest
Place(s) == CHOOSE i \in DOMAIN Hierarchy : lower(s) = Hierarchy[i]

C25_HasRoleHierarchy ==
    (auth # None /\ auth[1].answer # None) =>
        (auth[1].answer[1] <=>
            /\ auth[1].role # None
            /\ InHierarchy(auth[1].role[1])
            /\ InHierarchy(auth[1].required_role)
            /\ Place(auth[1].role[1]) <= Place(auth[1].required_role))

----------------------------------------------------------------------------
(* C29: delete_pipeline is a soft delete.  A successful delete sets        *)
(* deleted_at on one pipeline row that had none and changes nothing else:  *)
(* no pipeline, run or task row is removed or altered.  A row with         *)
(* deleted_at set stays as it is; get_pipeline, update_pipeline,           *)
(* delete_pipeline and trigger_pipeline on its id answer NotFound and      *)
(* write nothing, list_pipelines leaves it out, and no step adds a run of  *)
(* it.                                                                     *)
Deleted(pid) == pid \in DOMAIN pipelines /\ pipelines[pid].deleted_at # None

C29_SoftDelete ==
    [][/\ (Called("delete_pipeline") /\ result'.out = Ok) =>
             /\ \E pid \in DOMAIN pipelines :
                   /\ pipelines[pid].deleted_at = None
                   /\ pipelines'[pid].deleted_at # None
                   /\ pipelines' = [pipelines EXCEPT
                                       ![pid].deleted_at = pipelines'[pid].deleted_at]
             /\ runs' = runs
             /\ tasks' = tasks
       /\ \A pid \in DOMAIN pipelines : Deleted(pid) => pipelines'[pid] = pipelines[pid]
       /\ \A rid \in DOMAIN runs' \ DOMAIN runs : ~Deleted(runs'[rid].pipeline_id)
       /\ \A t \in Tenants, pid \in DOMAIN pipelines :
             Deleted(pid) =>
                /\ Called("get_pipeline") => (GetPipeline(t, pid) => Refused)
                /\ Called("update_pipeline") =>
                      \A data \in IsoUpdates : update_pipeline(t, pid, data) => Refused
                /\ Called("delete_pipeline") => (delete_pipeline(t, pid) => Refused)
                /\ Called("trigger_pipeline") => (trigger_pipeline(t, pid) => Refused)
                /\ Called("list_pipelines") =>
                      \A enabled_only \in BOOLEAN :
                         ListPipelines(t, enabled_only) =>
                            pid \notin Range(result'.out.args)]_vars

\* the only pipeline was deleted after it got a run and its task, both
\* still stored, and a trigger was then answered NotFound
C29_Witness ==
    /\ Len(pipelines) = 1
    /\ Deleted(1)
    /\ \E rid \in DOMAIN runs : runs[rid].pipeline_id = 1 /\ get_pipeline_tasks(rid) # {}
    /\ result = Returned("trigger_pipeline", NotFoundError("Pipeline"))

----------------------------------------------------------------------------
(* C30: names are reserved by live pipelines only.  create_pipeline with a *)
(* valid DAG under a name that no live (not deleted) pipeline of the       *)
(* tenant has, a deleted pipeline's name included, succeeds and stores a   *)
(* new live pipeline of that name; under the name of a live pipeline of    *)
(* the tenant it fails with ConflictError and stores nothing.              *)
LiveName(t, name) ==
    \E i \in DOMAIN pipelines :
        /\ pipelines[i].tenant_id = t
        /\ pipelines[i].name = name
        /\ pipelines[i].deleted_at = None

C30_NameReusableAfterDelete ==
    [][Called("create_pipeline") =>
          \A t \in Tenants, name \in Names, dag \in ValidDags \cap DagInputs,
             enabled \in BOOLEAN :
             create_pipeline(t, name, dag, enabled) =>
                IF LiveName(t, name)
                THEN /\ result'.out = ConflictError("Pipeline")
                     /\ pipelines' = pipelines
                ELSE /\ result'.out = Ok
                     /\ pipelines' = Append(pipelines, Pipeline(t, name, dag, enabled))]_vars

----------------------------------------------------------------------------
(* C23: with an executor that eventually reports SUCCESS or FAILED for     *)
(* every task, every run that trigger_pipeline created eventually has a    *)
(* terminal status: it does not stay PENDING or RUNNING forever.           *)
C23_RunEventuallyTerminal ==
    \A rid \in 1..MaxRuns :
        (rid \in DOMAIN runs) ~> (rid \in DOMAIN runs /\ runs[rid].status \in Terminal)

----------------------------------------------------------------------------
(* C28: under every interleaving of cancel_pipeline_run with a concurrent  *)
(* update_run_status(SUCCESS or FAILED) on the same run, the run makes one *)
(* terminal transition: no commit changes the status or the end_time of a  *)
(* run whose committed status is SUCCESS, FAILED or CANCELLED.             *)
\* one session cancels the run that the other reports SUCCESS or FAILED for
CancelMeetsReport(rid) ==
    \E c, u \in Sessions :
        /\ sess[c].op = "cancel_pipeline_run" /\ sess[c].rid = rid
        /\ sess[u].op = "update_run_status" /\ sess[u].rid = rid
        /\ sess[u].status \in {SUCCESS, FAILED}

C28_OneTerminalTransition ==
    [][\A rid \in DOMAIN runs :
          (CancelMeetsReport(rid)' /\ runs[rid].status \in Terminal) =>
              /\ runs'[rid].status = runs[rid].status
              /\ runs'[rid].end_time = runs[rid].end_time]_vars

----------------------------------------------------------------------------
(* C6: when two concurrent update_task_status calls that report the two    *)
(* tasks of a run, both unfinished, as SUCCESS have both committed, both   *)
(* tasks are SUCCESS (no update is lost) and the run is SUCCESS with its   *)
(* end_time set.                                                           *)
BothReportedSuccess ==
    /\ \A s \in Sessions : sess[s].pc = "done" /\ sess[s].tid # NoId /\ sess[s].status = SUCCESS
    /\ \E rid \in DOMAIN runs : {sess[s].tid : s \in Sessions} = get_pipeline_tasks(rid)
    /\ Cardinality({sess[s].tid : s \in Sessions}) = Cardinality(Sessions)

C6_ConcurrentLastTwoSuccess ==
    BothReportedSuccess =>
        \A s \in Sessions :
            /\ tasks[sess[s].tid].status = SUCCESS
            /\ runs[tasks[sess[s].tid].pipeline_run_id].status = SUCCESS
            /\ runs[tasks[sess[s].tid].pipeline_run_id].end_time # None

====
